---------------------------- MODULE Spec2Model ----------------------------
(***************************************************************************)
(* The mixed-integer program built by src/main.py (household investment   *)
(* and tax model, three persons m, p, n, two vehicles i, g, periods       *)
(* 0..Y-1), as a state machine over its feasible assignments.             *)
(*                                                                         *)
(* The builder's loop "for y in range(Y)" adds the constraints of one     *)
(* period per iteration.  A state holds the loop position and a point     *)
(* that satisfies every constraint added so far: the share f, the values  *)
(* of period y-1 (cur), the balances of period y-2 (prevA) and the        *)
(* period-0 interest income (Ii0), which is everything a later constraint *)
(* can still refer to.  AddPeriod extends the point by one period;        *)
(* Solve and Report are lines 299 and 304-328.                            *)
(*                                                                         *)
(* Amounts are exact: person q's money is an integer number of 1/U(q)     *)
(* rupee, f is an integer number of percent, and a product with a         *)
(* decimal coefficient is admitted only where it is again such an         *)
(* integer.  The continuous variables range over finite grids.  The       *)
(* source computes with floats; the model computes with the decimals      *)
(* written in the source.  The objective (line 216) selects among the     *)
(* feasible points and is not modelled: every property below is about all *)
(* feasible points.                                                        *)
(***************************************************************************)
EXTENDS Integers, FiniteSets, Sequences, TLC

VARIABLES pc, y, f, cur, prevA, Ii0, status

vars == <<pc, y, f, cur, prevA, Ii0, status>>

(***************************************************************************)
(* Bounds of the model.                                                    *)
(***************************************************************************)
\* horizon (the source ships Y = 11; the docstring's example uses 3)
Y == 3
\* f ranges over 0, 15, ..., MaxFSteps * 15 percent
MaxFSteps == 2
\* total deductions D start from 300,000 less 1..MaxDSteps steps of 100,000
MaxDSteps == 1
\* fixed deductions DF start from 0, 50,000, ..., MaxDFSteps * 50,000
MaxDFSteps == 2
\* a growth balance is the previous one plus 0..MaxBalanceSteps steps
MaxBalanceSteps == 20

(***************************************************************************)
(* Exact arithmetic on the integer grids.                                  *)
(***************************************************************************)
CeilDiv(a, b) == -((-a) \div b)

\* floor and ceiling of (num/den) * x, den > 0, without forming num * x
FloorMul(num, den, x) == num * (x \div den) + ((num * (x % den)) \div den)

CeilMul(num, den, x) == num * (x \div den) + CeilDiv(num * (x % den), den)

\* (num/den) * x is an integer
IsExact(num, den, x) == (num * (x % den)) % den = 0

RECURSIVE Pow(_, _)
Pow(base, e) == IF e = 0 THEN 1 ELSE base * Pow(base, e - 1)

\* Python's round(v, -2) of v = num / den (no tie occurs in the schedules)
RoundNeg2(num, den) == 100 * ((2 * num + 100 * den) \div (200 * den))

(***************************************************************************)
(* Constants and initial values, lines 74-101.                             *)
(***************************************************************************)
\* VERY_LARGE_NUM = 1e8 (rupees)
VERY_LARGE_NUM == 100000000
\* VERY_SMALL_NUM = 1e-3 rupee, in thousandths of a rupee
VERY_SMALL_NUM == 1
\* max_HR_fraction = 0.5, in percent
max_HR_fraction == 50

SeniorPersons == {"m", "p"}

Persons == SeniorPersons \cup {"n"}

Investments == {"i", "g"}

Brackets == {"A", "B", "C"}

\* units per rupee of person q's amounts: m and p start from balances whose
\* income has paise; n's amounts are kept in tenths of a rupee so that
\* amounts of the size of VERY_LARGE_NUM can be written
U(q) == IF q \in SeniorPersons THEN 100 ELSE 10

\* rupees as an amount of person q
Rs(q, rupees) == rupees * U(q)

\* SAL_c[yy] = round(30e5 * 1.1 ** yy, -2), rupees, for the periods 0..5
SAL_c == [yy \in 0..5 |-> RoundNeg2(30 * Pow(11, yy) * Pow(10, 5 - yy), 1)]

\* BS_c[yy] = 0.4 * SAL_c[yy], rupees
BS_c == [yy \in 0..5 |-> (4 * SAL_c[yy]) \div 10]

\* SR_c[yy] = round(1.74e5 * 1.1 ** yy, -2), rupees
SR_c ==
  [yy \in 0..5 |->
     IF yy <= 3 THEN RoundNeg2(174 * Pow(11, yy) * Pow(10, 3 - yy), 1)
     ELSE RoundNeg2(174 * Pow(11, yy), Pow(10, yy - 3))]

\* rupees
DF_lim(q) == 50000

D_lim(q) == IF q = "n" THEN 275000 ELSE 300000

DD_lim(q) == D_lim(q) - DF_lim(q)

\* rupees
A0(q, v) ==
  CASE q = "m" /\ v = "i" -> 2000000
    [] q = "m" /\ v = "g" -> 1159500
    [] q = "p" /\ v = "i" -> 1700000
    [] q = "p" /\ v = "g" -> 225000
    [] OTHER -> 0

\* r[q][v][yy] as <<numerator, denominator>>
r(q, v, yy) ==
  CASE q = "m" /\ v = "i" -> <<8887, 100000>>
    [] q = "m" /\ v = "g" -> <<9844, 100000>>
    [] q = "p" /\ v = "i" -> <<8626, 100000>>
    [] q = "p" /\ v = "g" -> <<7978, 100000>>
    [] OTHER -> <<9308, 100000>>

\* an allocation that sends everything to the interest-bearing vehicle; the
\* shipped one is d below
d_interest(q, yy) == 0

\* d[q][yy] = 1
d(q, yy) == 1

\* variable definitions that are constants, lines 113-125 (rupees)
BS(q, yy) == IF q = "n" THEN BS_c[yy] ELSE 0

SAL(q, yy) == IF q = "n" THEN SAL_c[yy] ELSE 0

SR(q, yy) == IF q = "m" THEN SR_c[yy] ELSE 0

(***************************************************************************)
(* The constraints of one person q and one period yy, lines 219-295.  A   *)
(* record v holds the person's variables of the period: HR, I_i, I_g,     *)
(* A_i, A_g, t, F_i, F_g, T, E, K, DF, D, b and tax_comp.  ff is f in     *)
(* percent, pA the person's balances of period yy-1, i0 the person's      *)
(* I['i'][0], M the big-M constant.                                        *)
(***************************************************************************)

\* f[q] * BS['n'][yy] (the right-hand side of lines 241-242), in 1/u rupee
HRshare(q, yy, ff, u) == FloorMul(ff[q], 100, BS("n", yy) * u)

HRshareExact(q, yy, ff, u) == IsExact(ff[q], 100, BS("n", yy) * u)

\* lines 241-242: only the seniors' HR is tied to f; line 128 leaves HR['n']
\* with its lower bound 0 alone
HRConstraint(q, yy, HR, ff) ==
  q \in SeniorPersons =>
    HRshareExact(q, yy, ff, U(q)) /\ HR = HRshare(q, yy, ff, U(q))

\* line 243
ShareConstraint(ff) == ff["m"] + ff["p"] <= max_HR_fraction

\* line 221
InitialPin(q, A_i, A_g) ==
  A_i = Rs(q, A0(q, "i")) /\ A_g = Rs(q, A0(q, "g"))

\* the right-hand side of line 227: r[q][v][yy] * A[q][v][yy]
Income(q, v, yy, A) == FloorMul(r(q, v, yy)[1], r(q, v, yy)[2], A)

\* line 227
IncomeConstraint(q, v, yy, I, A) ==
  IsExact(r(q, v, yy)[1], r(q, v, yy)[2], A) /\ I = Income(q, v, yy, A)

\* line 232
WealthConstraint_i(A_i, prevA_i, F_i) == A_i = prevA_i + F_i

\* line 233 weakened to an inequality, for comparison with the source's
\* equality
WealthInequality_g(A_g, prevA_g, F_g, I_g) == A_g >= prevA_g + F_g + I_g

\* line 233
WealthConstraint_g(A_g, prevA_g, F_g, I_g) == A_g = prevA_g + F_g + I_g

\* lines 237-238
DeductionConstraint(q, DF, D) ==
  D >= DF /\ D <= DF + Rs(q, DD_lim(q))

\* the decimal products of lines 255-257 are amounts of the grid
TaxableExact(q, yy, HR, ff) ==
  /\ IsExact(3, 10, HR + Rs(q, SR(q, yy)))
  /\ IsExact(12 + 10, 100, Rs(q, BS(q, yy)))
  /\ IsExact(ff["m"] + ff["p"] - 10, 100, Rs(q, BS(q, yy)))

\* lines 248-258 without the 0.1 * BS that line 257 gives back, for
\* comparison
TaxableIncomeNoAddBack(q, yy, HR, I_i, I_g, D, ff) ==
  Rs(q, SAL(q, yy)) + Rs(q, SR(q, yy)) + HR + I_i + I_g - D
    - FloorMul(3, 10, HR + Rs(q, SR(q, yy)))
    - FloorMul(12 + 10, 100, Rs(q, BS(q, yy)))
    - FloorMul(ff["m"] + ff["p"], 100, Rs(q, BS(q, yy)))

\* the right-hand side of lines 248-258
TaxableIncome(q, yy, HR, I_i, I_g, D, ff) ==
  Rs(q, SAL(q, yy)) + Rs(q, SR(q, yy)) + HR + I_i + I_g - D
    - FloorMul(3, 10, HR + Rs(q, SR(q, yy)))
    - FloorMul(12 + 10, 100, Rs(q, BS(q, yy)))
    - FloorMul(ff["m"] + ff["p"] - 10, 100, Rs(q, BS(q, yy)))

\* lines 264-269.  T <= R rupees is CeilDiv(T, U) <= R, and
\* T >= X thousandths of a rupee is T >= CeilDiv(X, 1000 / U).
BracketConstraints(q, T, b, M) ==
  /\ b["A"] + b["B"] + b["C"] = 1
  /\ CeilDiv(T, U(q)) <= 500000 + (1 - b["A"]) * M
  /\ T >= CeilDiv((500000 * 1000 + VERY_SMALL_NUM) * b["B"], 1000 \div U(q))
  /\ CeilDiv(T, U(q)) <= 1000000 + (1 - b["B"]) * M
  /\ T >= CeilDiv((1000000 * 1000 + VERY_SMALL_NUM) * b["C"], 1000 \div U(q))

\* 0.2 and 0.3 in tenths, 87500 and 187500 in rupees (lines 273-279)
Rate10(k) == IF k = "B" THEN 2 ELSE 3

\* the offsets of a schedule that taxes nothing below 500,000, for
\* comparison with the source's 87500 and 187500
OffsetCumulative(k) == IF k = "B" THEN 100000 ELSE 200000

Offset(k) == IF k = "B" THEN 87500 ELSE 187500

\* 1.04 * VERY_LARGE_NUM, rupees
CessM(M) == FloorMul(104, 100, M)

\* the largest amount <= 1.04 * (rate * T - offset * bk), lines 273 and 277
CompUpper(q, k, T, bk) ==
  FloorMul(104 * Rate10(k), 1000, T) - Rs(q, FloorMul(104, 100, Offset(k))) * bk

\* the smallest amount >= 1.04 * (rate * T - offset), lines 275 and 279
\* without their big-M term
CompLower(q, k, T) ==
  CeilMul(104 * Rate10(k), 1000, T) - Rs(q, FloorMul(104, 100, Offset(k)))

\* lines 273-275 (k = "B") and 277-279 (k = "C")
CompConstraint(q, k, T, bk, c, M) ==
  /\ c <= CompUpper(q, k, T, bk)
  /\ CeilDiv(c, U(q)) <= CessM(M) * bk
  /\ (c - CompLower(q, k, T)) \div U(q) >= -(CessM(M) * (1 - bk))

\* lines 271-279
TaxCompConstraints(q, T, b, c, M) ==
  /\ c["A"] <= 0
  /\ CompConstraint(q, "B", T, b["B"], c["B"], M)
  /\ CompConstraint(q, "C", T, b["C"], c["C"], M)

\* the right-hand side of line 281
TaxLiability(c) == c["A"] + c["B"] + c["C"]

\* the right-hand sides of lines 285 and 286 (HR['m'], HR['p'] are f * BS by
\* lines 241-242)
Expense(q, yy, ff, i0) ==
  IF q \in SeniorPersons THEN Rs(q, SR(q, yy)) + i0
  ELSE Rs(q, BS("n", yy)) + HRshare("m", yy, ff, U(q)) + HRshare("p", yy, ff, U(q))

\* line 290 without the expenses E, for comparison
DisposableIncomeNoExpense(q, yy, HR, I_i, DF, D, E, t) ==
  Rs(q, SAL(q, yy)) + Rs(q, SR(q, yy)) + HR + I_i + DF - D - t

\* the right-hand side of line 290
DisposableIncome(q, yy, HR, I_i, DF, D, E, t) ==
  Rs(q, SAL(q, yy)) + Rs(q, SR(q, yy)) + HR + I_i + DF - D - E - t

\* the right-hand sides of lines 294 and 295
Invest_g(q, yy, K) == d(q, yy) * K

Invest_i(q, yy, K) == (1 - d(q, yy)) * K

\* bounds of the variable declarations, lines 107-212: DF is declared by
\* LpVariable.dict(name, indices, DF_lim[q]), whose third positional
\* parameter is lowBound; D by (name, indices, 0, D_lim[q]); F has no bound
DF_Bounds(q, DF) == DF >= Rs(q, DF_lim(q))

D_Bounds(q, D) == 0 <= D /\ D <= Rs(q, D_lim(q))

VariableBounds(q, v) ==
  /\ DF_Bounds(q, v.DF)
  /\ D_Bounds(q, v.D)
  /\ v.HR >= 0 /\ v.I_i >= 0 /\ v.I_g >= 0 /\ v.A_i >= 0 /\ v.A_g >= 0
  /\ v.t >= 0 /\ v.T >= 0 /\ v.E >= 0 /\ v.K >= 0
  /\ \A k \in Brackets : v.b[k] \in {0, 1} /\ v.tax_comp[k] >= 0

\* every constraint of lines 219-295 on person q's variables of period yy
PeriodConstraints(q, yy, v, ff, pA, i0, M) ==
  /\ VariableBounds(q, v)
  /\ yy = 0 => InitialPin(q, v.A_i, v.A_g)
  /\ IncomeConstraint(q, "i", yy, v.I_i, v.A_i)
  /\ IncomeConstraint(q, "g", yy, v.I_g, v.A_g)
  /\ yy > 0 => /\ WealthConstraint_i(v.A_i, pA.i, v.F_i)
               /\ WealthConstraint_g(v.A_g, pA.g, v.F_g, v.I_g)
  /\ DeductionConstraint(q, v.DF, v.D)
  /\ HRConstraint(q, yy, v.HR, ff)
  /\ ShareConstraint(ff)
  /\ TaxableExact(q, yy, v.HR, ff)
  /\ v.T = TaxableIncome(q, yy, v.HR, v.I_i, v.I_g, v.D, ff)
  /\ BracketConstraints(q, v.T, v.b, M)
  /\ TaxCompConstraints(q, v.T, v.b, v.tax_comp, M)
  /\ v.t = TaxLiability(v.tax_comp)
  /\ v.E = Expense(q, yy, ff, IF yy = 0 THEN v.I_i ELSE i0)
  /\ v.K = DisposableIncome(q, yy, v.HR, v.I_i, v.DF, v.D, v.E, v.t)
  /\ v.F_g = Invest_g(q, yy, v.K)
  /\ v.F_i = Invest_i(q, yy, v.K)

(***************************************************************************)
(* The grids of the continuous variables, and the points of one person    *)
(* and one period that satisfy PeriodConstraints.                          *)
(***************************************************************************)
\* f = pulp.LpVariable(f'f_{p}', 0, 1), line 107, in percent
FGrid == {15 * k : k \in 0..MaxFSteps}

DGrid(q) == {Rs(q, 300000 - 100000 * k) : k \in 1..MaxDSteps}

DFGrid(q) == {Rs(q, 50000 * k) : k \in 0..MaxDFSteps}

\* HR['n'] has a lower bound and no constraint (line 128): the grid holds
\* a small, a moderate and a very large amount
HRGrid(q, yy, ff) ==
  IF q \in SeniorPersons THEN {HRshare(q, yy, ff, U(q))}
  ELSE {0, Rs(q, 150000), Rs(q, 150000000)}

\* a balance is the pinned or the previous one plus whole steps of 100,000
BalanceGrid(q, v, yy, pA, steps) ==
  {(IF yy = 0 THEN Rs(q, A0(q, v)) ELSE pA[v]) + Rs(q, 100000 * k) : k \in 0..steps}

\* taxable income is taken on multiples of 125 units, where 1.04 * 0.2 * T
\* and 1.04 * 0.3 * T are amounts of the grid
TaxGrain == 5 * 5 * 5

CompGrid(q, k, T) == {0, CompUpper(q, k, T, 1), CompLower(q, k, T)}

\* the record of a person's variables of one period; t, K, F_g and F_i are
\* the right-hand sides of their defining equalities
Variables(q, yy, A_i, A_g, HR, I_i, I_g, D, T, E, b, c, DF) ==
  LET t == TaxLiability(c)
      K == DisposableIncome(q, yy, HR, I_i, DF, D, E, t)
  IN [HR |-> HR, I_i |-> I_i, I_g |-> I_g, A_i |-> A_i, A_g |-> A_g,
      t |-> t, F_i |-> Invest_i(q, yy, K), F_g |-> Invest_g(q, yy, K),
      T |-> T, E |-> E, K |-> K, DF |-> DF, D |-> D, b |-> b, tax_comp |-> c]

\* lines 232-233 with F of lines 294-295 and K of line 290, where DF <= D
\* (line 237) and t >= 0: the balances cannot grow by more than the income
\* left after the expenses
WealthReachable(q, yy, ff, pA, i0, A_i, A_g, HR) ==
  LET I_i == Income(q, "i", yy, A_i)
      W == DisposableIncome(q, yy, HR, I_i, 0, 0, Expense(q, yy, ff, i0), 0)
  IN /\ A_i - pA.i >= 0
     /\ A_i - pA.i <= Invest_i(q, yy, W)
     /\ A_g - pA.g - Income(q, "g", yy, A_g) >= 0
     /\ A_g - pA.g - Income(q, "g", yy, A_g) <= Invest_g(q, yy, W)

\* the points with the given balances and home rental and with total
\* deductions next to D0
CandidatesAt(q, yy, ff, pA, i0, M, A_i, A_g, HR, D0) ==
  IF ~ /\ yy = 0 => InitialPin(q, A_i, A_g)
       /\ yy > 0 => WealthReachable(q, yy, ff, pA, i0, A_i, A_g, HR)
       /\ IsExact(r(q, "i", yy)[1], r(q, "i", yy)[2], A_i)
       /\ IsExact(r(q, "g", yy)[1], r(q, "g", yy)[2], A_g)
       /\ HRshareExact("m", yy, ff, U(q)) /\ HRshareExact("p", yy, ff, U(q))
       /\ TaxableExact(q, yy, HR, ff)
  THEN {}
  ELSE
    LET I_i == Income(q, "i", yy, A_i)
        I_g == Income(q, "g", yy, A_g)
        D == D0 + (TaxableIncome(q, yy, HR, I_i, I_g, D0, ff) % TaxGrain)
        T == TaxableIncome(q, yy, HR, I_i, I_g, D, ff)
        E == Expense(q, yy, ff, IF yy = 0 THEN I_i ELSE i0)
        bc == UNION { { <<b, [A |-> 0, B |-> cB, C |-> cC]>> :
                          cB \in {c \in CompGrid(q, "B", T) :
                                    c >= 0 /\ CompConstraint(q, "B", T, b["B"], c, M)},
                          cC \in {c \in CompGrid(q, "C", T) :
                                    c >= 0 /\ CompConstraint(q, "C", T, b["C"], c, M)} } :
                      b \in {bb \in [Brackets -> {0, 1}] : BracketConstraints(q, T, bb, M)} }
        \* the DF of the grid, and the DF at which lines 233, 290 and 294 hold
        \* together, that pass the constraints on DF and on the balances
        DFs(c) ==
          {DF \in DFGrid(q) \cup
                  (IF yy = 0 THEN {}
                   ELSE {(A_g - pA.g - I_g)
                         - DisposableIncome(q, yy, HR, I_i, 0, D, E, TaxLiability(c))}) :
             /\ DF_Bounds(q, DF)
             /\ DeductionConstraint(q, DF, D)
             /\ yy > 0 =>
                  LET K == DisposableIncome(q, yy, HR, I_i, DF, D, E, TaxLiability(c))
                  IN /\ WealthConstraint_i(A_i, pA.i, Invest_i(q, yy, K))
                     /\ WealthConstraint_g(A_g, pA.g, Invest_g(q, yy, K), I_g)}
    IN IF ~ (D_Bounds(q, D) /\ T >= 0) THEN {}
       ELSE UNION { { v \in { Variables(q, yy, A_i, A_g, HR, I_i, I_g, D, T, E, x[1], x[2], DF) :
                              DF \in DFs(x[2]) } :
                      PeriodConstraints(q, yy, v, ff, pA, i0, M) } : x \in bc }

Candidates(q, yy, ff, pA, i0, M) ==
  UNION { CandidatesAt(q, yy, ff, pA, i0, M, g[1], g[2], g[3], g[4]) :
          g \in BalanceGrid(q, "i", yy, pA, 1)
                \X BalanceGrid(q, "g", yy, pA, MaxBalanceSteps)
                \X HRGrid(q, yy, ff) \X DGrid(q) }

(***************************************************************************)
(* The program.                                                            *)
(***************************************************************************)
NoValue ==
  [HR |-> 0, I_i |-> 0, I_g |-> 0, A_i |-> 0, A_g |-> 0, t |-> 0, F_i |-> 0,
   F_g |-> 0, T |-> 0, E |-> 0, K |-> 0, DF |-> 0, D |-> 0,
   b |-> [k \in Brackets |-> 0], tax_comp |-> [k \in Brackets |-> 0]]

\* pulp's LpStatus values
SolverStatus == {"Optimal", "Not Solved", "Infeasible", "Unbounded", "Undefined"}

Balances(v) == [i |-> v.A_i, g |-> v.A_g]

\* lines 104-212: the problem and its variables, no constraint yet
Init ==
  /\ pc = "build"
  /\ y = 0
  /\ f \in [SeniorPersons -> FGrid]
  /\ cur = [q \in Persons |-> NoValue]
  /\ prevA = [q \in Persons |-> [i |-> 0, g |-> 0]]
  /\ Ii0 = [q \in Persons |-> 0]
  /\ status = "Not Solved"

\* one iteration of the loop of line 224 (with the pin of line 221 in the
\* first): the point is extended by values of period y that satisfy the
\* constraints the iteration adds
AddPeriod ==
  /\ pc = "build"
  /\ y < Y
  /\ \E vs \in Candidates("m", y, f, Balances(cur["m"]), Ii0["m"], VERY_LARGE_NUM)
               \X Candidates("p", y, f, Balances(cur["p"]), Ii0["p"], VERY_LARGE_NUM)
               \X Candidates("n", y, f, Balances(cur["n"]), Ii0["n"], VERY_LARGE_NUM) :
       /\ cur' = [q \in Persons |-> IF q = "m" THEN vs[1] ELSE IF q = "p" THEN vs[2] ELSE vs[3]]
       /\ prevA' = [q \in Persons |-> Balances(cur[q])]
       /\ Ii0' = IF y = 0 THEN [q \in Persons |-> cur'[q].I_i] ELSE Ii0
  /\ y' = y + 1
  /\ UNCHANGED <<pc, f, status>>

\* line 299: problem.solve() returns the solver's status and raises nothing
\* on an infeasible or unbounded problem; the script drops the return value
Solve ==
  /\ pc = "build"
  /\ y = Y
  /\ status' \in SolverStatus \ {"Not Solved"}
  /\ pc' = "solved"
  /\ UNCHANGED <<y, f, cur, prevA, Ii0>>

\* lines 304-328: the report reads varValue of the variables
Report ==
  /\ pc = "solved"
  /\ pc' = "reported"
  /\ UNCHANGED <<y, f, cur, prevA, Ii0, status>>

Next == AddPeriod \/ Solve \/ Report

Spec == Init /\ [][Next]_vars

(***************************************************************************)
(* Properties.  In a state with y >= 1, cur holds the values of period     *)
(* y - 1 and, with y >= 2, prevA the balances of period y - 2.             *)
(***************************************************************************)
Built == y >= 1

\* the bracket whose indicator is 1
Selected(v, k) == v.b[k] = 1

\* C1 (as the source has it): the tax liability is the sum of the three
\* bracket contributions, the contribution of a bracket that is not selected
\* is 0, and the liability is 0 in bracket A, 1.04 * (0.2 * T - 87,500) in
\* bracket B and 1.04 * (0.3 * T - 187,500) in bracket C.
C1_TaxOfSelectedBracket ==
  Built =>
    \A q \in Persons :
      LET v == cur[q]
      IN /\ v.t = v.tax_comp["A"] + v.tax_comp["B"] + v.tax_comp["C"]
         /\ \A k \in Brackets : ~Selected(v, k) => v.tax_comp[k] = 0
         /\ Selected(v, "A") => v.t = 0
         /\ Selected(v, "B") =>
              /\ (208 * (v.T % 1000)) % 1000 = 0
              /\ v.t = 208 * (v.T \div 1000) + (208 * (v.T % 1000)) \div 1000
                         - 91000 * U(q)
         /\ Selected(v, "C") =>
              /\ (312 * (v.T % 1000)) % 1000 = 0
              /\ v.t = 312 * (v.T \div 1000) + (312 * (v.T % 1000)) \div 1000
                         - 195000 * U(q)

\* all three brackets are selected in one period, with tax due in B and C
C1_Witness ==
  /\ Built
  /\ \E qa, qb, qc \in Persons :
       /\ Selected(cur[qa], "A") /\ cur[qa].T > 0
       /\ Selected(cur[qb], "B") /\ cur[qb].t > 0
       /\ Selected(cur[qc], "C") /\ cur[qc].t > 0

\* C1 as stated: the liability is G(T) for the rates 0 / 20% / 30% above
\* the thresholds 500,000 and 1,000,000, that is 0.2 * (T - 500,000) in
\* bracket B and 100,000 + 0.3 * (T - 1,000,000) in bracket C.
C1_CumulativeSchedule ==
  Built =>
    \A q \in Persons :
      LET v == cur[q]
      IN /\ v.t = v.tax_comp["A"] + v.tax_comp["B"] + v.tax_comp["C"]
         /\ \A k \in Brackets : ~Selected(v, k) => v.tax_comp[k] = 0
         /\ Selected(v, "A") => v.t = 0
         /\ Selected(v, "B") => 10 * v.t = 2 * (v.T - 500000 * U(q))
         /\ Selected(v, "C") =>
              10 * v.t = 1000000 * U(q) + 3 * (v.T - 1000000 * U(q))

\* C2: for y > 0 the income of a period is the previous period's rate times
\* the previous period's balance, I[q][v][y] = r[q][v][y-1] * A[q][v][y-1].
C2_IncomeOnPreviousBalance ==
  y >= 2 =>
    \A q \in Persons :
      /\ IsExact(r(q, "i", y - 2)[1], r(q, "i", y - 2)[2], prevA[q].i)
      /\ cur[q].I_i = FloorMul(r(q, "i", y - 2)[1], r(q, "i", y - 2)[2], prevA[q].i)
      /\ IsExact(r(q, "g", y - 2)[1], r(q, "g", y - 2)[2], prevA[q].g)
      /\ cur[q].I_g = FloorMul(r(q, "g", y - 2)[1], r(q, "g", y - 2)[2], prevA[q].g)

\* C3: the fixed deduction lies between 0 and the person's cap,
\* 0 <= DF[q][y] <= DF_lim[q].
C3_FixedDeductionWithinCap ==
  Built =>
    \A q \in Persons : 0 <= cur[q].DF /\ cur[q].DF <= DF_lim(q) * U(q)

RelaxedM == 2 * VERY_LARGE_NUM

\* C5: exactly one bracket indicator is 1 and it agrees with the taxable
\* income (A: T <= 500,000; B: 500,000 < T <= 1,000,000; C: T > 1,000,000),
\* and the big-M terms cut off no taxable income: a point that satisfies
\* the constraints of the next period with a larger big-M satisfies them
\* with VERY_LARGE_NUM.
C5_BracketsAgreeAndNoCutOff ==
  \A q \in Persons :
    /\ Built =>
         LET v == cur[q]
         IN /\ v.b["A"] + v.b["B"] + v.b["C"] = 1
            /\ Selected(v, "A") => v.T <= 500000 * U(q)
            /\ Selected(v, "B") => v.T > 500000 * U(q) /\ v.T <= 1000000 * U(q)
            /\ Selected(v, "C") => v.T > 1000000 * U(q)
    /\ (pc = "build" /\ y < Y) =>
         Candidates(q, y, f, Balances(cur[q]), Ii0[q], RelaxedM)
           \subseteq Candidates(q, y, f, Balances(cur[q]), Ii0[q], VERY_LARGE_NUM)

\* C6 (as the source has it): taxable income is SAL + SR + HR + I_i + I_g
\* - D - 0.3 * (HR + SR) - 0.22 * BS - (f_m + f_p) * BS + 0.1 * BS: a tenth
\* of the basic salary is added back to the part redirected to the seniors
\* (for m and p, whose BS is 0, the last three terms are 0).
C6_TaxableIncomeWithAddBack ==
  Built =>
    \A q \in Persons :
      LET v == cur[q]
          bs == BS(q, y - 1) * U(q)
          rent == v.HR + SR(q, y - 1) * U(q)
      IN /\ (3 * (rent % 10)) % 10 = 0 /\ bs % 100 = 0
         /\ v.T = SAL(q, y - 1) * U(q) + SR(q, y - 1) * U(q) + v.HR
                    + v.I_i + v.I_g - v.D
                    - (3 * (rent \div 10) + (3 * (rent % 10)) \div 10)
                    - 22 * (bs \div 100)
                    - (f["m"] + f["p"]) * (bs \div 100)
                    + 10 * (bs \div 100)
         /\ q \in SeniorPersons => bs = 0

\* the salaried person with a part of the basic salary redirected to both
\* seniors
C6_Witness ==
  /\ y >= 2
  /\ f["m"] > 0 /\ f["p"] > 0
  /\ cur["m"].HR > 0 /\ cur["p"].HR > 0
  /\ BS("n", y - 1) > 0 /\ cur["n"].T > 0

\* C6 as stated: the redirected part is (f_m + f_p) * BS with nothing added
\* back.
C6_NothingAddedBack ==
  Built =>
    \A q \in Persons :
      LET v == cur[q]
          bs == BS(q, y - 1) * U(q)
          rent == v.HR + SR(q, y - 1) * U(q)
      IN /\ (3 * (rent % 10)) % 10 = 0 /\ bs % 100 = 0
         /\ v.T = SAL(q, y - 1) * U(q) + SR(q, y - 1) * U(q) + v.HR
                    + v.I_i + v.I_g - v.D
                    - (3 * (rent \div 10) + (3 * (rent % 10)) \div 10)
                    - 22 * (bs \div 100)
                    - (f["m"] + f["p"]) * (bs \div 100)
         /\ q \in SeniorPersons => bs = 0

\* C7: disposable income K = SAL + SR + HR + I_i + DF - D - E - t is
\* non-negative and is the sum of the two investment flows, F_g = d * K and
\* F_i = (1 - d) * K for the constant d.
C7_DisposableIncomeSplit ==
  Built =>
    \A q \in Persons :
      LET v == cur[q]
      IN /\ v.K >= 0
         /\ v.K = SAL(q, y - 1) * U(q) + SR(q, y - 1) * U(q) + v.HR + v.I_i
                    + v.DF - v.D - v.E - v.t
         /\ v.K = v.F_g + v.F_i
         /\ v.F_g = d(q, y - 1) * v.K
         /\ v.F_i = (1 - d(q, y - 1)) * v.K

\* a later period in which every term of K is present for m and the tax
\* and the expenses of n are positive
C7_Witness ==
  /\ y >= 2
  /\ cur["m"].K > 0 /\ cur["m"].HR > 0 /\ cur["m"].I_i > 0 /\ cur["m"].E > 0
  /\ cur["m"].DF > 0 /\ cur["m"].D > cur["m"].DF
  /\ cur["n"].K > 0 /\ cur["n"].t > 0 /\ cur["n"].E > 0

\* C8: the report is produced only after a successful solve: a solve that
\* ends infeasible or unbounded fails before any value is reported.
C8_ReportOnlyAfterOptimal ==
  pc = "reported" => status = "Optimal"

\* C9: the non-senior person n receives no home-rental income,
\* HR['n'][y] = 0 in every period.
C9_NoHomeRentalForN ==
  Built => cur["n"].HR = 0

\* C10: with d = 1 nothing is invested in the interest-bearing vehicle, its
\* balance stays at the initial value and its income at the income of
\* period 0, and all disposable income goes to the growth vehicle.
C10_InterestVehicleFrozen ==
  Built =>
    \A q \in Persons :
      /\ cur[q].F_i = 0
      /\ cur[q].A_i = A0(q, "i") * U(q)
      /\ cur[q].I_i = Ii0[q]
      /\ cur[q].F_g = cur[q].K

\* after period 0, disposable income is positive for everyone and the
\* seniors hold an interest-bearing balance that earns income
C10_Witness ==
  /\ y >= 2
  /\ \A q \in Persons : cur[q].K > 0
  /\ \A q \in SeniorPersons : cur[q].A_i > 0 /\ cur[q].I_i > 0

=============================================================================
